---- MODULE Spec2Model ----
(***************************************************************************)
(* A model of google/colab/_quickchart.py: the dtype classifier            *)
(* (_classify_dtypes), the candidate selectors (_select_first_k_pairs,     *)
(* _select_faceted_numeric_cols, _select_time_series_cols), the chart      *)
(* orchestrator (determine_charts) and the two entry points (find_charts,  *)
(* find_charts_json) with the module-level dataframe registry.             *)
(*                                                                         *)
(* Four specifications share the variables:                                *)
(*   SpecClassify  draws a data frame and applies _classify_dtypes;        *)
(*   SpecSelect    draws column-name lists and a cap and applies the       *)
(*                 three selectors;                                        *)
(*   Spec          draws a data frame, a cap and the section builders'     *)
(*                 answers and calls find_charts or find_charts_json;      *)
(*   SpecRegistry  runs sequences of find_charts / find_charts_json calls  *)
(*                 and follows the module-level registry.                  *)
(***************************************************************************)
EXTENDS Integers, Sequences, FiniteSets, TLC

VARIABLES
    pc,           \* which specification runs and where it stands
    df,           \* the data frame: a sequence of columns (see MkCol)
    cap,          \* max_chart_instances / k: <<>> is None, <<n>> is the int n
    groups,       \* the dict returned by _classify_dtypes (SpecClassify)
    selTime,      \* time_cols argument of the selectors (SpecSelect)
    selNum,       \* numeric_cols / colnames argument (SpecSelect)
    selCat,       \* categorical_cols argument (SpecSelect)
    selOut,       \* what the applied selector yielded (SpecSelect)
    registry,     \* the module global _DATAFRAME_REGISTRY
    constructed,  \* how many DataframeRegistry objects were constructed
    builder,      \* the section builders: does the section of a family have charts
    calls,        \* how many entry-point calls the run still makes
    last          \* the record of the last entry-point call

vars == <<pc, df, cap, groups, selTime, selNum, selCat, selOut,
          builder, registry, constructed, calls, last>>

----------------------------------------------------------------------------
(* Bounds of the model *)

\* Most columns of a data frame drawn for SpecClassify.
MaxClsCols == 1
\* Most columns of a data frame drawn for Spec.
MaxCols == 4
\* Most columns of a data frame drawn for SpecRegistry.
MaxRegCols == 1
\* Largest integer cap drawn for Spec (None is always drawn too).
MaxCap == 1
\* Largest integer cap drawn for SpecSelect (None is always drawn too).
MaxSelCap == 2
\* Longest time_cols / categorical_cols list drawn for SpecSelect.
MaxSelSide == 2
\* Longest numeric_cols / colnames list drawn for SpecSelect.
MaxSelNum == 4
\* Most entry-point calls in one run of SpecRegistry.
MaxCalls == 3

----------------------------------------------------------------------------
(* Python values *)

\* Python's None where an int is expected: the cap is <<>> or <<n>>.
NoCap == <<>>
IsNone(k) == k = <<>>
CapOf(k) == k[1]

\* Python's None in the series slot of a time-series triple.
NoneCol == "<None>"
\* The aggregate token of _select_time_series_cols.
CountToken == "count()"

Min(a, b) == IF a <= b THEN a ELSE b

\* The element of a one-element set (used to evaluate an argument once).
The(S) == CHOOSE x \in S : TRUE

\* seq[:k] of a list.
SliceTo(seq, k) ==
    IF IsNone(k) THEN seq ELSE SubSeq(seq, 1, Min(CapOf(k), Len(seq)))

\* Mutant of Islice: stops one element late.
IsliceOneLate(seq, k) ==
    IF IsNone(k) THEN seq ELSE SubSeq(seq, 1, Min(CapOf(k) + 1, Len(seq)))

\* itertools.islice(it, k), the iterable given as the list of what it yields.
Islice(seq, k) ==
    IF IsNone(k) THEN seq ELSE SubSeq(seq, 1, Min(CapOf(k), Len(seq)))

\* Mutant of Pairwise: the pairs do not overlap, (s0,s1), (s2,s3), ...
PairwiseChunks(s) ==
    [i \in 1..(Len(s) \div 2) |-> <<s[2 * i - 1], s[2 * i]>>]

\* itertools.pairwise(s): (s0,s1), (s1,s2), ...
Pairwise(s) ==
    IF Len(s) < 2 THEN <<>> ELSE [i \in 1..(Len(s) - 1) |-> <<s[i], s[i + 1]>>]

\* itertools.product(a, b): the rightmost iterable advances fastest.
Product2(a, b) ==
    The({ [i \in 1..(Len(x) * Len(y)) |->
              <<x[((i - 1) \div Len(y)) + 1], y[((i - 1) % Len(y)) + 1]>>] :
          x \in {a}, y \in {b} })

\* itertools.product(a, b, c).
Product3(a, b, c) ==
    The({ [i \in 1..(Len(x) * Len(y) * Len(z)) |->
              <<x[((i - 1) \div (Len(y) * Len(z))) + 1],
                y[(((i - 1) \div Len(z)) % Len(y)) + 1],
                z[((i - 1) % Len(z)) + 1]>>] :
          x \in {a}, y \in {b}, z \in {c} })

\* The elements of a list.
Range(s) == {s[i] : i \in 1..Len(s)}

\* [c for c in s if c not in t]
Without(s, t) ==
    LET Keep(c) == c \notin Range(t) IN SelectSeq(s, Keep)

----------------------------------------------------------------------------
(* The selectors *)

SelectFirstKPairs(colnames, k) == Islice(Pairwise(colnames), k)

SelectFacetedNumericCols(numeric_cols, categorical_cols, k) ==
    Islice(Product2(numeric_cols, categorical_cols), k)

\* Mutant of TsNumeric: the time columns are not taken out.
TsNumericKeepAll(time_cols, numeric_cols) == numeric_cols

\* The locals of _select_time_series_cols after its rebinding statements.
TsNumeric(time_cols, numeric_cols) == Without(numeric_cols, time_cols)
TsCategorical(categorical_cols) ==
    IF categorical_cols = <<>> THEN <<NoneCol>> ELSE categorical_cols

SelectTimeSeriesCols(time_cols, numeric_cols, categorical_cols, k) ==
    Islice(Product3(time_cols,
                    TsNumeric(time_cols, numeric_cols) \o <<CountToken>>,
                    TsCategorical(categorical_cols)),
           k)

----------------------------------------------------------------------------
(* Column names *)

\* The letters of the column names drawn, as str(colname) gives them.
NameChars ==
    [x          |-> <<"x">>,
     y          |-> <<"y">>,
     g          |-> <<"g">>,
     c          |-> <<"c">>,
     id         |-> <<"i", "d">>,
     flag       |-> <<"f", "l", "a", "g">>,
     ts         |-> <<"t", "s">>,
     tsx        |-> <<"t", "s", "x">>,
     at         |-> <<"a", "t">>,
     Year       |-> <<"Y", "e", "a", "r">>,
     date       |-> <<"d", "a", "t", "e">>,
     updated    |-> <<"u", "p", "d", "a", "t", "e", "d">>,
     timer      |-> <<"t", "i", "m", "e", "r">>,
     timestamp  |-> <<"t", "i", "m", "e", "s", "t", "a", "m", "p">>,
     event_date |-> <<"e", "v", "e", "n", "t", "_", "d", "a", "t", "e">>]

\* str.lower() on one letter (the only upper-case letter drawn is Y).
LowerChar(c) == IF c = "Y" THEN "y" ELSE c
Lower(w) == [i \in 1..Len(w) |-> LowerChar(w[i])]

StartsWith(w, p) == Len(p) <= Len(w) /\ SubSeq(w, 1, Len(p)) = p
EndsWith(w, p) ==
    Len(p) <= Len(w) /\ SubSeq(w, Len(w) - Len(p) + 1, Len(w)) = p

\* _DATETIME_COLNAME_PATTERNS: prefix/suffix matches.
DATETIME_COLNAME_PATTERNS ==
    { <<"d", "a", "t", "e">>,
      <<"d", "a", "t", "e", "t", "i", "m", "e">>,
      <<"t", "i", "m", "e">>,
      <<"t", "i", "m", "e", "s", "t", "a", "m", "p">> }

\* _DATETIME_COLNAMES: exact matches.
DATETIME_COLNAMES ==
    { <<"d", "t">>, <<"t">>, <<"t", "s">>, <<"y", "e", "a", "r">> }

MatchesDatetimePattern(colname) ==
    \E w \in {Lower(NameChars[colname])} :
        \/ \E p \in DATETIME_COLNAME_PATTERNS : StartsWith(w, p) \/ EndsWith(w, p)
        \/ \E c \in DATETIME_COLNAMES : w = c

----------------------------------------------------------------------------
(* Dtypes and values *)

\* A value is [kind, v]: kind says what Python object it is, v tells values
\* of one kind apart (and orders the numbers).
\*   "int"       a number of an int64 / Int64 column
\*   "bool"      True (1) or False (0)
\*   "time"      a timestamp
\*   "timedelta" a duration
\*   "str"       a string
\*   "tuple"     a tuple: hashable, iterable
\*   "list"      a list: unhashable, iterable

\* The number a value pattern puts in row i of n.
\*   "const"  1, 1, 1, ...          one distinct value
\*   "asc"    1, 2, 3, ...          strictly increasing, n distinct values
\*   "nondec" 1, 1, 2, 2, 3, ...    non-decreasing with repeats
\*   "rot"    3, 1, 2 (n = 3)       n distinct values, not sorted
PatternValue(p, i, n) ==
    CASE p = "const"  -> 1
      [] p = "asc"    -> i
      [] p = "nondec" -> (i + 1) \div 2
      [] p = "rot"    -> ((i + 1) % n) + 1

\* The Python object in row i of a column of value kind k ("mixed": a list
\* in the first row, strings below it; a bool column holds only 0 and 1).
ValueAt(k, p, i, n) ==
    CASE k = "mixed" -> [kind |-> IF i = 1 THEN "list" ELSE "str",
                         v    |-> PatternValue(p, i, n)]
      [] k = "bool"  -> [kind |-> "bool", v |-> PatternValue(p, i, n) % 2]
      [] OTHER       -> [kind |-> k, v |-> PatternValue(p, i, n)]

\* A column is [name, dtype, kind, pat, rows]: its values are those the
\* pattern pat gives, of kind kind, in rows rows.
MkCol(name, dtype, k, p, n) ==
    [name |-> name, dtype |-> dtype, kind |-> k, pat |-> p, rows |-> n]

\* The value in row i of a column.
Val(col, i) == ValueAt(col.kind, col.pat, i, col.rows)

\* The values of a column (df[colname]), first row first.
Vals(col) == [i \in 1..col.rows |-> Val(col, i)]

\* pd.api.types.is_hashable(x)
IsHashable(x) == x.kind # "list"

\* _is_non_scalar(x): an Iterable that is neither bytes nor str.
IsNonScalar(x) == x.kind \in {"list", "tuple"}

\* _CATEGORICAL_DTYPES
CATEGORICAL_DTYPES == {"object", "bool"}
\* _DATETIME_DTYPES
DATETIME_DTYPES == {"datetime64[ns]"}
\* _DATETIME_DTYPE_KINDS
DATETIME_DTYPE_KINDS == {"M"}
\* _CATEGORICAL_LARGE_SIZE_THRESHOLD
CATEGORICAL_LARGE_SIZE_THRESHOLD == 8

\* The dtypes drawn.  "category" and "Int64" are pandas extension dtypes;
\* the others are numpy dtypes.
Dtypes ==
    {"object", "bool", "int64", "datetime64[ns]", "datetime64[s]",
     "timedelta64[ns]", "category", "Int64"}

\* dtype.kind
DtypeKind(d) ==
    CASE d = "object"          -> "O"
      [] d = "bool"            -> "b"
      [] d = "int64"           -> "i"
      [] d = "datetime64[ns]"  -> "M"
      [] d = "datetime64[s]"   -> "M"
      [] d = "timedelta64[ns]" -> "m"
      [] d = "category"        -> "O"
      [] d = "Int64"           -> "i"

\* pandas.api.types.is_numeric_dtype(dtype): numbers and booleans, never a
\* datetime or timedelta.
IsNumericDtype(d) == d \in {"int64", "bool", "Int64"}

\* isinstance(dtype, np.dtype)
IsNumpyDtype(d) == d \notin {"category", "Int64"}

\* np.issubdtype(dtype.base, np.number): numpy's timedelta64 is a
\* signedinteger; bool, datetime64 and object are not numbers.
IsSubdtypeNumber(d) == d \in {"int64", "timedelta64[ns]"}

\* len(series.unique())
NUnique(col) == Cardinality({Val(col, i) : i \in 1..col.rows})

\* all(series.apply(pd.api.types.is_hashable))
AllHashable(col) == \A i \in 1..col.rows : IsHashable(Val(col, i))

AllValuesScalar(col) == ~ \E i \in 1..col.rows : IsNonScalar(Val(col, i))

\* Mutant of NonDecreasing: < for <=.
StrictlyIncreasing(col) ==
    \A i \in 1..(col.rows - 1) : Val(col, i).v < Val(col, i + 1).v

\* np.all(np.array(series)[:-1] <= np.array(series)[1:])
NonDecreasing(col) ==
    \A i \in 1..(col.rows - 1) : Val(col, i).v <= Val(col, i + 1).v

IsMonotonicallyIncreasingNumeric(col) ==
    IF ~ IsNumpyDtype(col.dtype) THEN FALSE
    ELSE IsSubdtypeNumber(col.dtype) /\ NonDecreasing(col)

\* Mutant of PrimaryBranch: the categorical test comes before the singleton
\* test.
PrimaryBranchCategoricalFirst(col) ==
    IF ~ AllHashable(col) THEN "filtered"
    ELSE IF col.dtype \in CATEGORICAL_DTYPES THEN "cat"
    ELSE IF NUnique(col) <= 1 THEN "singleton"
    ELSE IF col.dtype \in DATETIME_DTYPES
            \/ DtypeKind(col.dtype) \in DATETIME_DTYPE_KINDS THEN "datetime"
    ELSE IF IsNumericDtype(col.dtype) THEN "numeric"
    ELSE "filtered"

\* The branch of the first loop of _classify_dtypes a column takes.
PrimaryBranch(col) ==
    IF ~ AllHashable(col) THEN "filtered"
    ELSE IF NUnique(col) <= 1 THEN "singleton"
    ELSE IF col.dtype \in CATEGORICAL_DTYPES THEN "cat"
    ELSE IF col.dtype \in DATETIME_DTYPES
            \/ DtypeKind(col.dtype) \in DATETIME_DTYPE_KINDS THEN "datetime"
    ELSE IF IsNumericDtype(col.dtype) THEN "numeric"
    ELSE "filtered"

\* The second loop's test: a categorical column is small or large.
IsSmallCategorical(col) == NUnique(col) <= CATEGORICAL_LARGE_SIZE_THRESHOLD

\* The third loop's test.
IsTimelike(col) ==
    (MatchesDatetimePattern(col.name) \/ IsMonotonicallyIncreasingNumeric(col))
    /\ AllValuesScalar(col)

\* The names of a list of columns, in order.
NamesOf(cols) == [i \in 1..Len(cols) |-> cols[i].name]

\* What the three loops of _classify_dtypes decide about one column: the
\* branch of the first loop, the size test of the second, the test of the
\* third.
ColumnTags(col) ==
    [name     |-> col.name,
     branch   |-> PrimaryBranch(col),
     small    |-> IsSmallCategorical(col),
     timelike |-> IsTimelike(col)]

\* The lists a column joins, given its tags.
InNumeric(t) == t.branch = "numeric"
InCategorical(t) == t.branch = "cat" /\ t.small
\* Mutant of InLargeCategorical: the append to large_cat_cols is not under
\* the else, so every categorical column joins the large list.
InLargeCategoricalNoElse(t) == t.branch = "cat"
InLargeCategorical(t) == t.branch = "cat" /\ ~ t.small
InDatetime(t) == t.branch = "datetime"
InTimelike(t) == t.timelike
InSingleton(t) == t.branch = "singleton"
InFiltered(t) == t.branch = "filtered"

\* _classify_dtypes(d): every list holds its columns in column order.  (The
\* tags are computed once, as the bound variable t.)
ClassifyDtypes(d) ==
    The({ [numeric           |-> NamesOf(SelectSeq(t, InNumeric)),
           categorical       |-> NamesOf(SelectSeq(t, InCategorical)),
           large_categorical |-> NamesOf(SelectSeq(t, InLargeCategorical)),
           datetime          |-> NamesOf(SelectSeq(t, InDatetime)),
           timelike          |-> NamesOf(SelectSeq(t, InTimelike)),
           singleton         |-> NamesOf(SelectSeq(t, InSingleton)),
           filtered          |-> NamesOf(SelectSeq(t, InFiltered))] :
          t \in { [i \in 1..Len(d) |-> ColumnTags(d[i])] \o <<>> } })

----------------------------------------------------------------------------
(* The data frames drawn *)

\* Row counts drawn: empty, one row, three rows, and one row more than the
\* small-categorical threshold.
RowCounts == {0, 1, 3, CATEGORICAL_LARGE_SIZE_THRESHOLD + 1}

\* The value kinds a dtype can store.
KindsOf(dtype) ==
    CASE dtype = "object"          -> {"str", "list", "tuple", "mixed"}
      [] dtype = "bool"            -> {"bool"}
      [] dtype = "int64"           -> {"int"}
      [] dtype = "Int64"           -> {"int"}
      [] dtype = "datetime64[ns]"  -> {"time"}
      [] dtype = "datetime64[s]"   -> {"time"}
      [] dtype = "timedelta64[ns]" -> {"timedelta"}
      [] dtype = "category"        -> {"str"}

Patterns == {"const", "asc", "nondec", "rot"}

\* Column names drawn for SpecClassify.
ClsNames ==
    {"x", "ts", "tsx", "at", "Year", "date", "updated", "timer", "timestamp",
     "event_date"}

\* All columns of n rows: every name, every dtype with every kind of value it
\* can store, every pattern.
ClsColumns(n) ==
    UNION { {MkCol(name, dtype, k, p, n) :
                name \in ClsNames, k \in KindsOf(dtype), p \in Patterns} :
            dtype \in Dtypes }

DistinctNames(f) ==
    \A i, j \in 1..Len(f) : f[i].name = f[j].name => i = j

\* f is a data frame of len columns of n rows, the column names distinct.
IsClsFrame(f, len, n) ==
    /\ f \in [1..len -> ClsColumns(n)]
    /\ DistinctNames(f)

----------------------------------------------------------------------------
(* SpecClassify: _classify_dtypes applied to a drawn data frame *)

NoGroups == [numeric |-> <<>>, categorical |-> <<>>, large_categorical |-> <<>>,
             datetime |-> <<>>, timelike |-> <<>>, singleton |-> <<>>,
             filtered |-> <<>>]

NoRegistry == [kind |-> "None"]
NoCall == [fn |-> "none"]
NoBuilder == <<>>

InitClassify ==
    /\ pc = "cls_input"
    /\ \E n \in RowCounts, len \in 0..MaxClsCols : IsClsFrame(df, len, n)
    /\ cap = NoCap
    /\ groups = NoGroups
    /\ selTime = <<>> /\ selNum = <<>> /\ selCat = <<>> /\ selOut = <<>>
    /\ builder = NoBuilder /\ registry = NoRegistry /\ constructed = 0 /\ calls = 0
    /\ last = NoCall

Classify ==
    /\ pc = "cls_input"
    /\ groups' = ClassifyDtypes(df)
    /\ pc' = "cls_done"
    /\ UNCHANGED <<df, cap, selTime, selNum, selCat, selOut,
                   builder, registry, constructed, calls, last>>

NextClassify == Classify

SpecClassify == InitClassify /\ [][NextClassify]_vars

----------------------------------------------------------------------------
(* SpecSelect: the three selectors applied to drawn column-name lists *)

\* Names drawn for time_cols (they overlap the numeric names), numeric_cols
\* and categorical_cols.
SelTimeNames == {"a", "b", "t"}
SelNumNames == {"a", "b", "c", "d"}
SelCatNames == {"g", "h"}

\* The caps drawn: None and 0..m.
CapsTo(m) == {NoCap} \cup {<<n>> : n \in 0..m}

Injective(s) == \A i, j \in 1..Len(s) : s[i] = s[j] => i = j

\* The argument lists as the caller holds them once _select_time_series_cols
\* has returned: the function rebinds its parameters to new lists and
\* changes no list it was given.
TimeSeriesArgsAfter(time_cols, numeric_cols, categorical_cols) ==
    <<time_cols, numeric_cols, categorical_cols>>

InitSelect ==
    /\ pc = "sel_input"
    /\ df = <<>>
    /\ cap \in CapsTo(MaxSelCap)
    /\ groups = NoGroups
    /\ \E lt \in 0..MaxSelSide : selTime \in [1..lt -> SelTimeNames]
    /\ \E ln \in 0..MaxSelNum : selNum \in [1..ln -> SelNumNames]
    /\ Injective(selNum)
    /\ \E lc \in 0..MaxSelSide : selCat \in [1..lc -> SelCatNames]
    /\ Injective(selCat)
    /\ selOut = <<>>
    /\ builder = NoBuilder /\ registry = NoRegistry /\ constructed = 0 /\ calls = 0
    /\ last = NoCall

\* list(_select_first_k_pairs(selNum, k=cap))
ApplyPairs ==
    /\ pc = "sel_input"
    /\ pc' = "sel_pairs"
    /\ selOut' = [given |-> <<selTime, selNum, selCat>>,
                  out   |-> SelectFirstKPairs(selNum, cap)]
    /\ UNCHANGED <<df, cap, groups, selTime, selNum, selCat,
                   builder, registry, constructed, calls, last>>

\* list(_select_faceted_numeric_cols(selNum, selCat, k=cap))
ApplyFaceted ==
    /\ pc = "sel_input"
    /\ pc' = "sel_faceted"
    /\ selOut' = [given |-> <<selTime, selNum, selCat>>,
                  out   |-> SelectFacetedNumericCols(selNum, selCat, cap)]
    /\ UNCHANGED <<df, cap, groups, selTime, selNum, selCat,
                   builder, registry, constructed, calls, last>>

\* list(_select_time_series_cols(selTime, selNum, selCat, k=cap))
ApplyTimeSeries ==
    /\ pc = "sel_input"
    /\ pc' = "sel_time_series"
    /\ selOut' = [given |-> <<selTime, selNum, selCat>>,
                  out   |-> SelectTimeSeriesCols(selTime, selNum, selCat, cap)]
    /\ selTime' = TimeSeriesArgsAfter(selTime, selNum, selCat)[1]
    /\ selNum' = TimeSeriesArgsAfter(selTime, selNum, selCat)[2]
    /\ selCat' = TimeSeriesArgsAfter(selTime, selNum, selCat)[3]
    /\ UNCHANGED <<df, cap, groups, builder, registry, constructed, calls, last>>

NextSelect == ApplyPairs \/ ApplyFaceted \/ ApplyTimeSeries

SpecSelect == InitSelect /\ [][NextSelect]_vars

----------------------------------------------------------------------------
(* determine_charts *)

\* The chart families in the order determine_charts evaluates them.
FamilyOrder ==
    <<"histogram", "categorical_histogram", "scatter", "time_series",
      "value_plot", "heatmap", "faceted_distribution">>
Families == Range(FamilyOrder)

\* time_cols = dtype_groups['datetime'] + dtype_groups['timelike']
TimeCols(g) == g.datetime \o g.timelike

\* Mutant of FamilyCalled: the scatter block asks for one numeric column,
\* not two.
FamilyCalledScatterOnOne(g) ==
    [histogram             |-> g.numeric # <<>>,
     categorical_histogram |-> g.categorical # <<>>,
     scatter               |-> Len(g.numeric) >= 1,
     time_series           |-> TimeCols(g) # <<>>,
     value_plot            |-> g.numeric # <<>>,
     heatmap               |-> Len(g.categorical) >= 2,
     faceted_distribution  |-> g.categorical # <<>> /\ g.numeric # <<>>]

\* The if-condition guarding each family's block.
FamilyCalled(g) ==
    [histogram             |-> g.numeric # <<>>,
     categorical_histogram |-> g.categorical # <<>>,
     scatter               |-> Len(g.numeric) >= 2,
     time_series           |-> TimeCols(g) # <<>>,
     value_plot            |-> g.numeric # <<>>,
     heatmap               |-> Len(g.categorical) >= 2,
     faceted_distribution  |-> g.categorical # <<>> /\ g.numeric # <<>>]

\* Mutant of FamilyCandidates: the histogram block also takes the singleton
\* columns.
FamilyCandidatesWithSingletons(g, k) ==
    [histogram             |-> SliceTo(g.numeric \o g.singleton, k),
     categorical_histogram |-> SliceTo(g.categorical, k),
     scatter               |-> SelectFirstKPairs(g.numeric, k),
     time_series           |-> SelectTimeSeriesCols(TimeCols(g), g.numeric,
                                                    g.categorical, k),
     value_plot            |-> SliceTo(g.numeric, k),
     heatmap               |-> SelectFirstKPairs(g.categorical, k),
     faceted_distribution  |-> SelectFacetedNumericCols(g.numeric,
                                                        g.categorical, k)]

\* The candidates each family's block hands to its _quickchart_helpers
\* section builder (read only where FamilyCalled holds).
FamilyCandidates(g, k) ==
    [histogram             |-> SliceTo(g.numeric, k),
     categorical_histogram |-> SliceTo(g.categorical, k),
     scatter               |-> SelectFirstKPairs(g.numeric, k),
     time_series           |-> SelectTimeSeriesCols(TimeCols(g), g.numeric,
                                                    g.categorical, k),
     value_plot            |-> SliceTo(g.numeric, k),
     heatmap               |-> SelectFirstKPairs(g.categorical, k),
     faceted_distribution  |-> SelectFacetedNumericCols(g.numeric,
                                                        g.categorical, k)]

\* Mutant of SectionAppended: the section is appended whatever it holds.
SectionAppendedAlways(has_charts) == TRUE

\* "if section.charts: chart_sections.append(section)": a built section is
\* appended when its chart list is non-empty.
SectionAppended(has_charts) == has_charts

\* The answers the section builders can give: for each family called,
\* whether the section built for it has charts (no answer is read for a
\* family that is not called).
BuiltChoices(g) ==
    {[f \in Families |-> f \in yes] :
        yes \in SUBSET {f \in Families : FamilyCalled(g)[f]}}

\* determine_charts from its second statement on: g is the dict line 90 got
\* from _classify_dtypes(df), k the cap, built the builders' answers.  A
\* section is named by its family.
DetermineCharts(g, k, built) ==
    LET called == FamilyCalled(g)
        Kept(f) == called[f] /\ SectionAppended(built[f])
    IN  [groups   |-> g,
         called   |-> called,
         handed   |-> FamilyCandidates(g, k),
         built    |-> built,
         sections |-> SelectSeq(FamilyOrder, Kept)]

----------------------------------------------------------------------------
(* Spec: find_charts and find_charts_json called on a drawn data frame *)

\* The columns data frames are drawn from, each of as many rows as make a
\* large categorical possible.
PoolRows == CATEGORICAL_LARGE_SIZE_THRESHOLD + 1
ColPool ==
    << MkCol("x",         "int64",           "int",       "asc",    PoolRows),
       MkCol("y",         "int64",           "int",       "rot",    PoolRows),
       MkCol("timestamp", "int64",           "int",       "rot",    PoolRows),
       MkCol("g",         "object",          "str",       "nondec", PoolRows),
       MkCol("flag",      "bool",            "bool",      "asc",    PoolRows),
       MkCol("id",        "object",          "str",       "asc",    PoolRows),
       MkCol("date",      "datetime64[ns]",  "time",      "asc",    PoolRows),
       MkCol("c",         "int64",           "int",       "const",  PoolRows),
       MkCol("ts",        "object",          "mixed",     "asc",    PoolRows),
       MkCol("Year",      "category",        "str",       "asc",    PoolRows) >>

\* idx picks columns of the pool in pool order.
Increasing(idx) == \A i \in 1..(Len(idx) - 1) : idx[i] < idx[i + 1]

\* The name find_charts_json is called with.
DfName == "df"

NewRegistry(n) == [kind |-> "DataframeRegistry", id |-> n]
FixedDataframeRegistry(name) == [kind |-> "FixedDataframeRegistry", name |-> name]

\* Mutant of EnsureDataframeRegistry: no "is None" test, a registry is
\* constructed on every call.
EnsureDataframeRegistryAlways(reg, n) == NewRegistry(n + 1)

\* _ensure_dataframe_registry(): the global after it, given the global
\* before it and the number of registries constructed so far.
EnsureDataframeRegistry(reg, n) ==
    IF reg = NoRegistry THEN NewRegistry(n + 1) ELSE reg

\* The number of registries constructed once _ensure_dataframe_registry ran.
ConstructedAfterEnsure(reg, n) == IF reg = NoRegistry THEN n + 1 ELSE n

\* The global once find_charts_json has returned (it names no global).
RegistryAfterJson(reg) == reg

\* Data frames of at most m columns of the pool, in pool order.
PoolFrames(m) ==
    UNION { {[i \in 1..len |-> ColPool[idx[i]]] :
                idx \in {x \in [1..len -> 1..Len(ColPool)] : Increasing(x)}} :
            len \in 0..m }

\* The state before the first of n entry-point calls on a frame of at most
\* m columns.
InitCalls(m, n) ==
    /\ pc = "idle"
    /\ df \in PoolFrames(m)
    /\ cap \in CapsTo(MaxCap)
    /\ groups = NoGroups
    /\ selTime = <<>> /\ selNum = <<>> /\ selCat = <<>> /\ selOut = <<>>
    /\ \E g \in {ClassifyDtypes(df)} : builder \in BuiltChoices(g)
    /\ registry = NoRegistry /\ constructed = 0 /\ calls = n
    /\ last = NoCall

Init == InitCalls(MaxCols, 1)

InitRegistry == InitCalls(MaxRegCols, MaxCalls)

\* What an entry point leaves behind: the registry it passed to
\* determine_charts and what determine_charts did and returned (r).
CallRecord(fn, passed, created, r) ==
    [fn       |-> fn,
     raised   |-> FALSE,
     passed   |-> passed,
     created  |-> created,
     groups   |-> r.groups,
     called   |-> r.called,
     handed   |-> r.handed,
     built    |-> r.built,
     sections |-> r.sections]

\* find_charts(df, cap)
FindCharts ==
    /\ pc = "idle"
    /\ calls > 0
    /\ \E g \in {ClassifyDtypes(df)} :
       \E r \in {DetermineCharts(g, cap, builder)} :
          /\ registry' = EnsureDataframeRegistry(registry, constructed)
          /\ constructed' = ConstructedAfterEnsure(registry, constructed)
          /\ last' = CallRecord("find_charts", registry',
                                constructed' # constructed, r)
    /\ calls' = calls - 1
    /\ UNCHANGED <<pc, df, cap, groups, selTime, selNum, selCat, selOut,
                   builder>>

\* find_charts_json(DfName, cap), the name bound to df in user_ns.
FindChartsJson ==
    /\ pc = "idle"
    /\ calls > 0
    /\ \E g \in {ClassifyDtypes(df)} :
       \E r \in {DetermineCharts(g, cap, builder)} :
          last' = CallRecord("find_charts_json",
                             FixedDataframeRegistry(DfName), FALSE, r)
    /\ registry' = RegistryAfterJson(registry)
    /\ calls' = calls - 1
    /\ UNCHANGED <<pc, df, cap, groups, selTime, selNum, selCat, selOut,
                   builder, constructed>>

\* find_charts_json(name, cap), the name not bound in user_ns: the lookup
\* raises KeyError before determine_charts is reached.
FindChartsJsonUnbound ==
    /\ pc = "idle"
    /\ calls > 0
    /\ last' = [fn |-> "find_charts_json", raised |-> TRUE]
    /\ registry' = RegistryAfterJson(registry)
    /\ calls' = calls - 1
    /\ UNCHANGED <<pc, df, cap, groups, selTime, selNum, selCat, selOut,
                   builder, constructed>>

Next == FindCharts \/ FindChartsJson \/ FindChartsJsonUnbound

Spec == Init /\ [][Next]_vars

SpecRegistry == InitRegistry /\ [][Next]_vars

----------------------------------------------------------------------------
(* The claims *)

\* An entry point ran determine_charts to its end.
Returned == last.fn # "none" /\ ~ last.raised

\* The column names of the data frame.
ColumnNames == {df[i].name : i \in 1..Len(df)}

NoRepeats(s) == \A i, j \in 1..Len(s) : s[i] = s[j] => i = j

\* The six primary lists of a classification g.
PrimaryLists(g) ==
    <<g.numeric, g.categorical, g.large_categorical, g.datetime, g.singleton,
      g.filtered>>

\* C1: after _classify_dtypes every column of the data frame is in exactly
\* one of the six primary lists numeric, categorical, large_categorical,
\* datetime, singleton, filtered: no list repeats a column, no two lists
\* share one, and together they hold the full column set.
C1_PrimaryGroupsPartition ==
    Returned =>
        LET lists == PrimaryLists(last.groups)
        IN  /\ \A i \in 1..Len(lists) : NoRepeats(lists[i])
            /\ \A i, j \in 1..Len(lists) :
                   i # j => Range(lists[i]) \cap Range(lists[j]) = {}
            /\ UNION {Range(lists[i]) : i \in 1..Len(lists)} = ColumnNames

\* A frame whose columns fall into four different primary lists, one of
\* them also timelike.
C1_Witness ==
    /\ Returned
    /\ last.groups.numeric # <<>>
    /\ last.groups.large_categorical # <<>>
    /\ last.groups.singleton # <<>>
    /\ last.groups.filtered # <<>>
    /\ Range(last.groups.timelike) \cap Range(last.groups.singleton) # {}

Max(a, b) == IF a >= b THEN a ELSE b

\* How many candidates each family has before any cap, counted from the
\* classification: single columns, sliding pairs, value x facet products,
\* and time x (numeric not in time, plus count()) x (facet or placeholder).
UncappedCount(g) ==
    LET time == g.datetime \o g.timelike
        values == Cardinality(Range(g.numeric) \ Range(time)) + 1
        series == Max(Len(g.categorical), 1)
    IN  [histogram             |-> Len(g.numeric),
         categorical_histogram |-> Len(g.categorical),
         scatter               |-> Max(Len(g.numeric) - 1, 0),
         time_series           |-> Len(time) * values * series,
         value_plot            |-> Len(g.numeric),
         heatmap               |-> Max(Len(g.categorical) - 1, 0),
         faceted_distribution  |-> Len(g.numeric) * Len(g.categorical)]

\* C2: for every cap k >= 0 each family's builder is handed at most k
\* candidates; with k = None it is handed all of them.
C2_CandidatesWithinCap ==
    Returned =>
        \A f \in Families :
            last.called[f] =>
                IF cap = NoCap
                THEN Len(last.handed[f]) = UncappedCount(last.groups)[f]
                ELSE Len(last.handed[f]) <= cap[1]

\* A cap of 1 cuts the candidates of three families that have more.
C2_Witness ==
    /\ Returned
    /\ cap = <<1>>
    /\ last.called.scatter /\ UncappedCount(last.groups).scatter > 1
    /\ last.called.time_series /\ UncappedCount(last.groups).time_series > 1
    /\ last.called.histogram /\ UncappedCount(last.groups).histogram > 1
    /\ Len(last.handed.scatter) = 1

\* The order the sections are to come in.
DisplayOrder ==
    [histogram |-> 1, categorical_histogram |-> 2, scatter |-> 3,
     time_series |-> 4, value_plot |-> 5, heatmap |-> 6,
     faceted_distribution |-> 7]

\* C3: whatever the builders answer, determine_charts returns only sections
\* that have charts, at most one per family, in the order histogram,
\* categorical-histogram, scatter, time-series, value-plot, heatmap,
\* faceted-distribution.
C3_SectionsNonEmptyOrdered ==
    Returned =>
        /\ \A i \in 1..Len(last.sections) : builder[last.sections[i]]
        /\ \A i, j \in 1..Len(last.sections) :
               i < j => DisplayOrder[last.sections[i]]
                            < DisplayOrder[last.sections[j]]

\* All seven families are called, the builders give charts for some and
\* none for others, and only those with charts are returned.
C3_Witness ==
    /\ Returned
    /\ \A f \in Families : last.called[f]
    /\ ~ builder["histogram"] /\ ~ builder["heatmap"]
    /\ last.sections = <<"categorical_histogram", "scatter", "time_series",
                         "value_plot", "faceted_distribution">>

\* The data frame has one numeric column, one small-categorical column and
\* a column named "date" whose values are all scalar, and the builders give
\* charts whenever they are handed candidates.
C4_Case ==
    /\ Returned
    /\ Len(last.groups.numeric) = 1
    /\ Len(last.groups.categorical) = 1
    /\ \E i \in 1..Len(df) :
           /\ df[i].name = "date"
           /\ \A r \in 1..df[i].rows : Val(df[i], r).kind \notin {"list", "tuple"}
    /\ \A f \in Families :
           last.called[f] /\ last.handed[f] # <<>> => builder[f]

\* C4 as stated (with the default cap, None): such a data frame gives
\* exactly histogram, categorical-histogram, time-series-line, value-plot
\* and no scatter, heatmap or faceted-distribution section.
C4_Original_FourSections ==
    C4_Case /\ cap = NoCap =>
        last.sections =
            <<"histogram", "categorical_histogram", "time_series", "value_plot">>

\* C4 (amended): with no cap or a cap of at least 1, such a data frame gives
\* exactly histogram, categorical-histogram, time-series-line, value-plot,
\* faceted-distribution in that order, and no scatter or heatmap section.
C4_FiveSections ==
    C4_Case /\ (cap = NoCap \/ cap[1] >= 1) =>
        last.sections =
            <<"histogram", "categorical_histogram", "time_series", "value_plot",
              "faceted_distribution">>

\* The three-column frame of the claim, called without a cap.
C4_Witness ==
    /\ C4_Case
    /\ cap = NoCap
    /\ Len(df) = 3
    /\ last.fn = "find_charts"

\* The columns of a candidate of family f: a column name, a pair or a triple.
CandidateColumns(f, cand) ==
    IF f \in {"histogram", "categorical_histogram", "value_plot"} THEN {cand}
    ELSE Range(cand)

\* The columns _classify_dtypes put in the singleton or the filtered list.
ExcludedColumns(g) == Range(g.singleton) \cup Range(g.filtered)

FindChartsStep == calls' = calls - 1 /\ last'.fn = "find_charts"
FindChartsJsonStep == calls' = calls - 1 /\ last'.fn = "find_charts_json"

\* C7: over any sequence of find_charts and find_charts_json calls the
\* registry is constructed at most once, by the first find_charts call; once
\* set it is never reset or replaced; every find_charts call hands
\* determine_charts that one registry; find_charts_json leaves the global as
\* it is and hands determine_charts its own fixed-name registry.
C7_RegistrySingleton ==
    /\ [](constructed <= 1 /\ (constructed = 0 <=> registry = NoRegistry))
    /\ [][registry # NoRegistry => registry' = registry]_vars
    /\ [][FindChartsStep =>
            /\ registry' # NoRegistry
            /\ last'.passed = registry'
            /\ last'.created <=> registry = NoRegistry]_vars
    /\ [][FindChartsJsonStep =>
            /\ registry' = registry
            /\ constructed' = constructed
            /\ ~ last'.raised =>
                   last'.passed = FixedDataframeRegistry(DfName)]_vars

\* A find_charts call that found the registry of an earlier call and passed
\* it on, at the end of a run of MaxCalls calls.
C7_Witness ==
    /\ last.fn = "find_charts"
    /\ ~ last.created
    /\ last.passed = registry
    /\ constructed = 1
    /\ calls = 0

\* C9: _select_first_k_pairs yields the sliding pairs (c1,c2), (c2,c3), ...
\* of its column list in order, cut to the first k (all n-1 of them when k
\* is None or at least n-1); [a,b,c,d] with k = 2 gives [(a,b),(b,c)].
C9_SlidingPairs ==
    pc = "sel_pairs" =>
        LET s == selOut.given[2]
            out == selOut.out
            all == Max(Len(s) - 1, 0)
            want == IF cap = NoCap THEN all ELSE Min(cap[1], all)
        IN  /\ Len(out) = want
            /\ \A i \in 1..want : out[i] = <<s[i], s[i + 1]>>
            /\ s = <<"a", "b", "c", "d">> /\ cap = <<2>>
                   => out = << <<"a", "b">>, <<"b", "c">> >>

\* [a,b,c,d] with k = 2.
C9_Witness ==
    /\ pc = "sel_pairs"
    /\ selNum = <<"a", "b", "c", "d">>
    /\ cap = <<2>>
    /\ selOut.out = << <<"a", "b">>, <<"b", "c">> >>

\* C8: _select_time_series_cols yields the first k (all when k is None) of
\* the cross product time column x (numeric columns not in the time list, in
\* order, then "count()") x (categorical columns, or the one placeholder
\* None when there are none), time outermost and categorical innermost; no
\* tuple has a time column as its value; the argument lists are unchanged.
C8_TimeSeriesProduct ==
    pc = "sel_time_series" =>
        LET time == selOut.given[1]
            NotTime(c) == \A i \in 1..Len(time) : time[i] # c
            values == SelectSeq(selOut.given[2], NotTime) \o <<"count()">>
            series == IF selOut.given[3] = <<>> THEN <<NoneCol>>
                      ELSE selOut.given[3]
            all == Len(time) * Len(values) * Len(series)
            want == IF cap = NoCap THEN all ELSE Min(cap[1], all)
            out == selOut.out
        IN  /\ Len(out) = want
            /\ \A i \in 1..Len(time), j \in 1..Len(values), l \in 1..Len(series) :
                   LET at == ((i - 1) * Len(values) + (j - 1)) * Len(series) + l
                   IN  at <= want => out[at] = <<time[i], values[j], series[l]>>
            /\ \A n \in 1..Len(out) : out[n][2] \notin Range(time)
            /\ <<selTime, selNum, selCat>> = selOut.given

\* No categorical column, a numeric column that is also a time column, and a
\* cap that cuts the product.
C8_Witness ==
    /\ pc = "sel_time_series"
    /\ selCat = <<>>
    /\ selTime = <<"b", "t">>
    /\ selNum = <<"a", "b", "c">>
    /\ cap = <<2>>
    /\ selOut.out = << <<"b", "a", NoneCol>>, <<"b", "c", NoneCol>> >>

\* The column has fewer than two distinct values.
FewerThanTwoDistinct(col) ==
    \A i, j \in 1..col.rows : Val(col, i) = Val(col, j)

\* The column holds an unhashable value (a list).
HoldsUnhashable(col) == \E i \in 1..col.rows : Val(col, i).kind = "list"

\* name is in the primary list which and in no other primary list of g.
OnlyIn(name, which, g) ==
    \A l \in {"numeric", "categorical", "large_categorical", "datetime",
              "singleton", "filtered"} :
        name \in Range(g[l]) <=> l = which

\* C6 as stated: a column with fewer than 2 distinct values is in the
\* singleton list and in no other primary list, whatever its dtype and
\* whatever its values.
C6_Original_AlwaysSingleton ==
    pc = "cls_done" =>
        \A i \in 1..Len(df) :
            FewerThanTwoDistinct(df[i]) => OnlyIn(df[i].name, "singleton", groups)

\* C6 (amended): a column whose values are all hashable and that has fewer
\* than 2 distinct values is in the singleton list and in no other primary
\* list, whatever its dtype; a column that holds an unhashable value is in
\* the filtered list only, however few distinct values it has.
C6_HashableSingleton ==
    pc = "cls_done" =>
        \A i \in 1..Len(df) :
            /\ FewerThanTwoDistinct(df[i]) /\ ~ HoldsUnhashable(df[i])
                   => OnlyIn(df[i].name, "singleton", groups)
            /\ HoldsUnhashable(df[i]) => OnlyIn(df[i].name, "filtered", groups)

\* A three-row column of a categorical dtype holding one value three times.
C6_Witness ==
    /\ pc = "cls_done"
    /\ Len(df) = 1
    /\ df[1].dtype = "object" /\ df[1].kind = "str"
    /\ df[1].pat = "const" /\ df[1].rows = 3
    /\ groups.singleton = <<df[1].name>>

\* The drawn names that, lower-cased, start or end with date, datetime, time
\* or timestamp or are dt, t, ts or year.
NamesOfDateTimeShape == {"ts", "Year", "date", "timer", "timestamp", "event_date"}

\* The drawn dtypes that are numpy dtypes of numbers (np.number: the
\* integers, which for numpy include timedelta64; not bool, not datetime64).
NativeNumericDtypes == {"int64", "timedelta64[ns]"}

\* What C10 says makes a column timelike.
ShouldBeTimelike(col) ==
    /\ \A i \in 1..col.rows : Val(col, i).kind \notin {"list", "tuple"}
    /\ \/ col.name \in NamesOfDateTimeShape
       \/ /\ col.dtype \in NativeNumericDtypes
          /\ \A i, j \in 1..col.rows :
                 i < j => Val(col, i).v <= Val(col, j).v

\* C10: a column is in the timelike list if and only if all its values are
\* scalar and either its name has the date/time shape or it has a native
\* numeric dtype and non-decreasing values, whatever its primary group; a
\* scalar column named timestamp, event_date or ts is timelike even when
\* unsorted, and a numeric column [3,1,2] with another name is not.
C10_TimelikeIff ==
    pc = "cls_done" =>
        \A i \in 1..Len(df) :
            LET col == df[i]
                tagged == col.name \in Range(groups.timelike)
            IN  /\ tagged <=> ShouldBeTimelike(col)
                /\ /\ col.name \in {"timestamp", "event_date", "ts"}
                   /\ col.kind \in {"int", "str", "time", "timedelta", "bool"}
                   => tagged
                /\ /\ col.dtype = "int64" /\ col.pat = "rot" /\ col.rows = 3
                   /\ col.name \in {"x", "tsx", "at", "updated"}
                   => ~ tagged

\* An unsorted numeric column named event_date is timelike (and numeric).
C10_Witness ==
    /\ pc = "cls_done"
    /\ Len(df) = 1
    /\ df[1].name = "event_date" /\ df[1].dtype = "int64"
    /\ df[1].pat = "rot" /\ df[1].rows = 3
    /\ groups.timelike = <<"event_date">>
    /\ groups.numeric = <<"event_date">>

====
